---- MODULE Spec2Model ----
(***************************************************************************)
(* kvslite: a Bitcask-style key-value store.  All mutations are appended   *)
(* to wal.log as CRC-checked frames (codec.rs), the WAL manager appends,   *)
(* reads at an offset and replays with truncation on open (wal.rs), and    *)
(* the Db facade keeps an in-memory index key -> (offset, len) (db.rs).    *)
(*                                                                         *)
(* Bytes are the integers 0..255, byte strings are sequences of bytes and  *)
(* the file wal.log is one byte string.  File offsets are 0-based as in    *)
(* the source; sequence positions are 1-based.                             *)
(***************************************************************************)
EXTENDS Integers, Sequences, FiniteSets, TLC

(***************************************************************************)
(* codec.rs: constants                                                     *)
(***************************************************************************)
MAGIC == <<75, 86, 83, 76>>

VERSION == 1

KIND_PUT == 1

KIND_DELETE == 2

MAX_KEY_SIZE == 1024

MAX_VALUE_SIZE == 1024 * 1024

\* MAX_RECORD_SIZE gone wrong: no room for a value of MAX_VALUE_SIZE
MaxRecordOneMiB == 1024 * 1024

MAX_RECORD_SIZE == 2 * 1024 * 1024

\* HEADER_SIZE gone wrong: the two length fields left out
HeaderWithoutLengths == 18 - 8

HEADER_SIZE == 18

(***************************************************************************)
(* Integers of the model are 32-bit signed; a u32 read from four bytes     *)
(* may exceed that.  Every use of such a value in decode compares it with  *)
(* a limit far below 2^31 before anything else, so the value saturates at  *)
(* U32_SATURATED without changing any outcome.                             *)
(***************************************************************************)
U32_SATURATED == 2147483647

\* u32::to_be_bytes: the other byte order, which the format does not use
to_be_bytes(n) ==
    << (n \div 16777216) % 256, (n \div 65536) % 256, (n \div 256) % 256, n % 256 >>

\* u32::to_le_bytes of (n as u32), for 0 <= n < 2^31
to_le_bytes(n) ==
    << n % 256, (n \div 256) % 256, (n \div 65536) % 256, (n \div 16777216) % 256 >>

\* u32::from_le_bytes(b) as usize
from_le_bytes(b) ==
    IF b[4] >= 128 THEN U32_SATURATED
    ELSE b[1] + 256 * b[2] + 65536 * b[3] + 16777216 * b[4]

(***************************************************************************)
(* crc32fast::Hasher: the IEEE CRC-32 (reflected polynomial EDB88320,      *)
(* initial value and final xor FFFFFFFF).  A 32-bit word is the tuple of   *)
(* its four bytes, least significant first.                                *)
(***************************************************************************)
RECURSIVE XorBits(_, _, _)
XorBits(a, b, n) ==
    IF n = 0 THEN 0
    ELSE (((a % 2) + (b % 2)) % 2) + 2 * XorBits(a \div 2, b \div 2, n - 1)

XorTable ==
    <<>> \o [a \in 1..256 |-> <<>> \o [b \in 1..256 |-> XorBits(a - 1, b - 1, 8)]]

Xor(a, b) == XorTable[a + 1][b + 1]

XorWord(x, y) == << Xor(x[1], y[1]), Xor(x[2], y[2]), Xor(x[3], y[3]), Xor(x[4], y[4]) >>

\* w >> 1 on a little-endian 4-byte word
ShiftRight1(w) ==
    << (w[1] \div 2) + 128 * (w[2] % 2),
       (w[2] \div 2) + 128 * (w[3] % 2),
       (w[3] \div 2) + 128 * (w[4] % 2),
       (w[4] \div 2) >>

\* w ^ 0xEDB88320, the reflected IEEE polynomial, on a little-endian word
XorPoly(w) ==
    << XorBits(w[1], 32, 8), XorBits(w[2], 131, 8),
       XorBits(w[3], 184, 8), XorBits(w[4], 237, 8) >>

RECURSIVE CrcTableEntry(_, _)
CrcTableEntry(w, n) ==
    IF n = 0 THEN w
    ELSE CrcTableEntry(IF w[1] % 2 = 1 THEN XorPoly(ShiftRight1(w))
                       ELSE ShiftRight1(w), n - 1)

\* entry i + 1 is the table word of byte i
CrcTable == <<>> \o [i \in 1..256 |-> CrcTableEntry(<<i - 1, 0, 0, 0>>, 8)]

\* one byte folded into the running CRC register
CrcStep(c, byte) ==
    LET t == CrcTable[Xor(c[1], byte) + 1]
    IN  << Xor(c[2], t[1]), Xor(c[3], t[2]), Xor(c[4], t[3]), t[4] >>

\* The bytes at positions lo..hi folded in, in order.  The range is split
\* in halves to keep the recursion shallow, and CrcFoldFrom has the left
\* half computed (by the test on it) before the right half is entered.
RECURSIVE CrcFold(_, _, _, _)
CrcFoldFrom(left, bytes, lo, hi) ==
    IF Len(left) = 4 THEN CrcFold(left, bytes, lo, hi) ELSE left

CrcFold(c, bytes, lo, hi) ==
    IF lo > hi THEN c
    ELSE IF lo = hi THEN CrcStep(c, bytes[lo])
    ELSE CrcFoldFrom(CrcFold(c, bytes, lo, (lo + hi) \div 2), bytes,
                     ((lo + hi) \div 2) + 1, hi)

\* Hasher::new(); update(bytes); finalize(), then to_le_bytes
Crc32(bytes) ==
    XorWord(CrcFold(<<255, 255, 255, 255>>, bytes, 1, Len(bytes)), <<255, 255, 255, 255>>)

(***************************************************************************)
(* codec.rs: Record, Record::put, Record::delete, encode, decode           *)
(***************************************************************************)
\* Result<T>: tag "Ok" carries val, tag "Err" carries the Error variant's name
Ok(v) == [tag |-> "Ok", val |-> v, err |-> ""]

Err(e) == [tag |-> "Err", val |-> <<>>, err |-> e]

Record(kind, key, value) == [kind |-> kind, key |-> key, value |-> value]

\* RecordPut with the key limit off by one
RecordPutLax(key, value) ==
    IF Len(key) > MAX_KEY_SIZE + 1 THEN Err("KeyTooLarge")
    ELSE IF Len(value) > MAX_VALUE_SIZE THEN Err("ValueTooLarge")
    ELSE Ok(Record("Put", key, value))

RecordPut(key, value) ==
    IF Len(key) > MAX_KEY_SIZE THEN Err("KeyTooLarge")
    ELSE IF Len(value) > MAX_VALUE_SIZE THEN Err("ValueTooLarge")
    ELSE Ok(Record("Put", key, value))

RecordDelete(key) ==
    IF Len(key) > MAX_KEY_SIZE THEN Err("KeyTooLarge")
    ELSE Ok(Record("Delete", key, <<>>))

KindByte(kind) == IF kind = "Put" THEN KIND_PUT ELSE KIND_DELETE

\* Record::encode: the frame of a record; it checks no size limit
\* steps 2 to 6 of encode: rec_len, version, kind, key_len, val_len, for a
\* record of the given kind and lengths
FrameHeader(kind, key_len, val_len) ==
    LET rec_len == HEADER_SIZE + key_len + val_len + 4
    IN  to_le_bytes(rec_len) \o <<VERSION>> \o <<KindByte(kind)>>
        \o to_le_bytes(key_len) \o to_le_bytes(val_len)

Encode(record) ==
    LET covered == FrameHeader(record.kind, Len(record.key), Len(record.value))
                   \o record.key \o record.value
    IN  MAGIC \o covered \o Crc32(covered)

\* the bytes of f at the 0-based offsets [from, from + n)
Slice(f, from, n) == SubSeq(f, from + 1, from + n)

(***************************************************************************)
(* Record::decode on a reader over f positioned at the 0-based offset pos. *)
(* tag "Some": a record, and next, the reader's position after the frame;  *)
(* tag "None": Ok(None); tag "Err": the Error variant in err.  read_exact  *)
(* fails with io::ErrorKind::UnexpectedEof when fewer bytes are left than  *)
(* asked for, which the `?` operator turns into Error::Io.                 *)
(***************************************************************************)
DecSome(rec, next) == [tag |-> "Some", rec |-> rec, next |-> next, err |-> ""]

DecNone == [tag |-> "None", rec |-> Record("Put", <<>>, <<>>), next |-> 0, err |-> ""]

DecErr(e) == [tag |-> "Err", rec |-> Record("Put", <<>>, <<>>), next |-> 0, err |-> e]

\* step 5 of decode: the fields of a frame whose CRC matched
DecodeFields(remaining, crc_offset, next) ==
    LET version  == remaining[1]
        kind_byte == remaining[2]
        key_len  == from_le_bytes(SubSeq(remaining, 3, 6))
        val_len  == from_le_bytes(SubSeq(remaining, 7, 10))
        data_start == 10
    IN  IF version # VERSION THEN DecErr("UnsupportedVersion")
        ELSE IF kind_byte \notin {KIND_PUT, KIND_DELETE} THEN DecErr("InvalidRecordKind")
        ELSE IF key_len > MAX_KEY_SIZE THEN DecErr("KeyTooLarge")
        ELSE IF val_len > MAX_VALUE_SIZE THEN DecErr("ValueTooLarge")
        ELSE IF data_start + key_len + val_len > crc_offset THEN DecErr("UnexpectedEof")
        ELSE DecSome(Record(IF kind_byte = KIND_PUT THEN "Put" ELSE "Delete",
                            SubSeq(remaining, data_start + 1, data_start + key_len),
                            SubSeq(remaining, data_start + key_len + 1,
                                   data_start + key_len + val_len)),
                     next)

\* steps 2..4 of decode gone wrong: the version and kind bytes are looked at
\* before the CRC is compared
DecodeBodyFieldsFirst(f, pos) ==
    IF Len(f) - (pos + 4) < 4 THEN DecErr("Io")
    ELSE
      LET rec_len_bytes == Slice(f, pos + 4, 4)
          rec_len == from_le_bytes(rec_len_bytes)
      IN  IF rec_len < HEADER_SIZE + 4 \/ rec_len > MAX_RECORD_SIZE
          THEN DecErr("UnexpectedEof")
          ELSE
            LET remaining_len == rec_len - 8
            IN  IF Len(f) - (pos + 8) < remaining_len THEN DecErr("Io")
                ELSE
                  LET remaining  == Slice(f, pos + 8, remaining_len)
                      crc_offset == remaining_len - 4
                      stored_crc == SubSeq(remaining, crc_offset + 1, crc_offset + 4)
                      computed_crc == Crc32(rec_len_bytes \o SubSeq(remaining, 1, crc_offset))
                  IN  IF remaining[1] # VERSION THEN DecErr("UnsupportedVersion")
                      ELSE IF remaining[2] \notin {KIND_PUT, KIND_DELETE}
                           THEN DecErr("InvalidRecordKind")
                      ELSE IF stored_crc # computed_crc THEN DecErr("CrcMismatch")
                      ELSE DecodeFields(remaining, crc_offset, pos + rec_len)

\* steps 2..4 of decode, after the magic has been read
DecodeBody(f, pos) ==
    IF Len(f) - (pos + 4) < 4 THEN DecErr("Io")
    ELSE
      LET rec_len_bytes == Slice(f, pos + 4, 4)
          rec_len == from_le_bytes(rec_len_bytes)
      IN  IF rec_len < HEADER_SIZE + 4 \/ rec_len > MAX_RECORD_SIZE
          THEN DecErr("UnexpectedEof")
          ELSE
            LET remaining_len == rec_len - 8
            IN  IF Len(f) - (pos + 8) < remaining_len THEN DecErr("Io")
                ELSE
                  LET remaining  == Slice(f, pos + 8, remaining_len)
                      crc_offset == remaining_len - 4
                      stored_crc == SubSeq(remaining, crc_offset + 1, crc_offset + 4)
                      computed_crc == Crc32(rec_len_bytes \o SubSeq(remaining, 1, crc_offset))
                  IN  IF stored_crc # computed_crc THEN DecErr("CrcMismatch")
                      ELSE DecodeFields(remaining, crc_offset, pos + rec_len)

\* step 1 of decode: a read_exact of the magic that hits the end of the
\* input, after 0, 1, 2 or 3 bytes, returns Ok(None)
Decode(f, pos) ==
    IF Len(f) - pos < 4 THEN DecNone
    ELSE IF Slice(f, pos, 4) # MAGIC THEN DecErr("InvalidMagic")
    ELSE DecodeBody(f, pos)

(***************************************************************************)
(* wal.rs: ReplayStats, Wal::replay, Wal::open, Wal::append, Wal::read_at  *)
(***************************************************************************)
ReplayStats(total, valid, corrupted, truncated) ==
    [total_records |-> total, valid_records |-> valid,
     corrupted_records |-> corrupted, truncated_bytes |-> truncated]

\* The loop of Wal::replay with the reader at last_valid_offset and the
\* records decoded so far.  The result is the records, the statistics and
\* the file as replay leaves it (set_len on the first Err).
RECURSIVE ReplayLoop(_, _, _)
ReplayLoop(f, last_valid_offset, records) ==
    LET d == Decode(f, last_valid_offset)
    IN  CASE d.tag = "Some" -> ReplayLoop(f, d.next, Append(records, d.rec))
          [] d.tag = "None" ->
               [records |-> records,
                stats |-> ReplayStats(Len(records), Len(records), 0, 0),
                file |-> f]
          [] d.tag = "Err" ->
               LET truncated_bytes == Len(f) - last_valid_offset
               IN  [records |-> records,
                    stats |-> ReplayStats(Len(records) + 1, Len(records), 1, truncated_bytes),
                    file |-> IF truncated_bytes > 0
                             THEN SubSeq(f, 1, last_valid_offset) ELSE f]

Replay(f) == ReplayLoop(f, 0, <<>>)

\* The outcome of the I/O of one append: every step succeeds, write_all
\* fails after `written` bytes reached the file, or sync_data fails.
IoOk == [kind |-> "ok", written |-> 0]

IoWriteErr(n) == [kind |-> "write_err", written |-> n]

IoSyncErr == [kind |-> "sync_err", written |-> 0]

\* WalAppend gone wrong: the file is not in append mode, the frame is written
\* at the cached offset over whatever is there
WalAppendAtOffset(f, wal_offset, durable, record, sync, io) ==
    LET data == IF io.kind = "write_err" THEN SubSeq(Encode(record), 1, io.written)
                ELSE Encode(record)
        over == SubSeq(f, 1, wal_offset) \o data
        out == over \o SubSeq(f, Len(over) + 1, Len(f))
    IN  IF io.kind = "ok" \/ (io.kind = "sync_err" /\ ~sync)
        THEN [res |-> Ok(wal_offset), file |-> out, offset |-> wal_offset + Len(data),
              synced |-> IF sync THEN Len(out) ELSE durable]
        ELSE [res |-> Err("Io"), file |-> out, offset |-> wal_offset, synced |-> durable]

\* WalAppend gone wrong for a log with two writers: the start of the frame
\* is taken from the length of the file, not from the cached offset
WalAppendAtEnd(f, wal_offset, durable, record, sync, io) ==
    IF io.kind # "ok"
    THEN [res |-> Err("Io"), file |-> f, offset |-> wal_offset, synced |-> durable]
    ELSE [res |-> Ok(Len(f)), file |-> f \o Encode(record),
          offset |-> Len(f) + Len(Encode(record)),
          synced |-> IF sync THEN Len(f) + Len(Encode(record)) ELSE durable]

\* WalAppend gone wrong: without sync the frame stays in a buffer of the
\* process and never reaches the file
WalAppendBuffered(f, wal_offset, durable, record, sync, io) ==
    IF io.kind # "ok"
    THEN [res |-> Err("Io"), file |-> f, offset |-> wal_offset, synced |-> durable]
    ELSE IF sync
    THEN [res |-> Ok(wal_offset), file |-> f \o Encode(record),
          offset |-> wal_offset + Len(Encode(record)),
          synced |-> Len(f) + Len(Encode(record))]
    ELSE [res |-> Ok(wal_offset), file |-> f,
          offset |-> wal_offset + Len(Encode(record)), synced |-> durable]

\* Wal::append on the file f (opened in append mode) with the cached offset
\* wal_offset; durable is the length of the prefix of f on the device.
WalAppend(f, wal_offset, durable, record, sync, io) ==
    LET data == Encode(record)
        start_offset == wal_offset
    IN  CASE io.kind = "write_err" ->
               [res |-> Err("Io"), file |-> f \o SubSeq(data, 1, io.written),
                offset |-> wal_offset, synced |-> durable]
          [] io.kind = "sync_err" /\ sync ->
               [res |-> Err("Io"), file |-> f \o data,
                offset |-> wal_offset, synced |-> durable]
          [] OTHER ->
               [res |-> Ok(start_offset), file |-> f \o data,
                offset |-> wal_offset + Len(data),
                synced |-> IF sync THEN Len(f) + Len(data) ELSE durable]

\* Option<Vec<u8>> inside a Result: "Some" carries value, "None", or "Err"
GetSome(v) == [tag |-> "Some", value |-> v, err |-> ""]

GetNone == [tag |-> "None", value |-> <<>>, err |-> ""]

GetErr(e) == [tag |-> "Err", value |-> <<>>, err |-> e]

\* Wal::read_at: seek, then read_exact of len bytes
ReadAt(f, at, len) ==
    IF len = 0 THEN GetSome(<<>>)
    ELSE IF at + len > Len(f) THEN GetErr("Io")
    ELSE GetSome(Slice(f, at, len))

(***************************************************************************)
(* db.rs: ValuePos, the index, Db::rebuild_index, put, get, delete         *)
(***************************************************************************)
ValuePos(at, len) == [offset |-> at, len |-> len]

EmptyIndex == [k \in {} |-> ValuePos(0, 0)]

IndexInsert(idx, key, pos) ==
    [k \in DOMAIN idx \cup {key} |-> IF k = key THEN pos ELSE idx[k]]

\* IndexRemove gone wrong: the Delete arm leaves the key in place
IndexRemoveNothing(idx, key) == idx

IndexRemove(idx, key) == [k \in DOMAIN idx \ {key} |-> idx[k]]

\* PutValuePos gone wrong: the offset of the frame, not of the value in it
PutValuePosFrameStart(record_offset, record) ==
    ValuePos(record_offset, Len(record.value))

\* steps 3 and 4 of Db::put, and the Put arm of rebuild_index: the position
\* of the value inside the frame that starts at record_offset
PutValuePos(record_offset, record) ==
    LET record_len == Len(Encode(record))
        value_offset_in_record == record_len - 4 - Len(record.value)
    IN  ValuePos(record_offset + value_offset_in_record, Len(record.value))

RECURSIVE RebuildLoop(_, _, _, _)
RebuildLoop(records, i, idx, at) ==
    IF i > Len(records) THEN idx
    ELSE LET record == records[i]
             record_len == Len(Encode(record))
         IN  RebuildLoop(records, i + 1,
                         IF record.kind = "Put"
                         THEN IndexInsert(idx, record.key, PutValuePos(at, record))
                         ELSE IndexRemove(idx, record.key),
                         at + record_len)

RebuildIndex(records) == RebuildLoop(records, 1, EmptyIndex, 0)

\* Db::get as a function of the index and the file
DbGet(idx, f, key) ==
    IF key \in DOMAIN idx THEN ReadAt(f, idx[key].offset, idx[key].len) ELSE GetNone

\* PutIndex gone wrong: the index is updated whatever append returned
PutIndexAlways(idx, appended, record) ==
    IndexInsert(idx, record.key,
                PutValuePos(IF appended.res.tag = "Ok" THEN appended.res.val
                            ELSE appended.offset, record))

\* Db::put after Wal::append returned `appended`: `?` returns early on Err
PutIndex(idx, appended, record) ==
    IF appended.res.tag = "Err" THEN idx
    ELSE IndexInsert(idx, record.key, PutValuePos(appended.res.val, record))

\* DeleteIndex gone wrong: the key stays in the index
DeleteIndexKeep(idx, appended, record) == idx

\* Db::delete after Wal::append returned `appended`
DeleteIndex(idx, appended, record) ==
    IF appended.res.tag = "Err" THEN idx ELSE IndexRemove(idx, record.key)

(***************************************************************************)
(* Bounds of the model and the inputs of the operations                    *)
(***************************************************************************)
\* appends attempted in one behaviour (successful, failed or interrupted)
MaxAppends == 2

\* incidents in one behaviour: I/O errors in Wal::append, and crashes of the
\* process or of the host
MaxIncidents == 1

RECURSIVE Zeros(_)
Zeros(n) ==
    IF n = 0 THEN <<>>
    ELSE IF n % 2 = 1 THEN <<0>> \o Zeros(n - 1)
    ELSE LET h == Zeros(n \div 2) IN h \o h

OversizeKey == Zeros(MAX_KEY_SIZE + 1)

LimitValue == Zeros(MAX_VALUE_SIZE)

LimitKey == Zeros(MAX_KEY_SIZE)

OversizeValue == Zeros(MAX_VALUE_SIZE + 1)

\* keys and values the callers pass: empty, short, and beyond the limits
SmallKeys == {<<>>, <<7>>}

SmallValues == {<<>>, <<9>>}

\* keys and values at the limits and one byte beyond them
LimitKeys == {LimitKey, OversizeKey}

LimitValues == {OversizeValue}

\* how many bytes of a frame reach the file when a write is cut short:
\* none, a part of the magic, a part of the header
TornPoints == {0, 2, 9}

\* what the file system may do during one append
IoOutcomes(sync) ==
    {IoOk} \cup {IoWriteErr(n) : n \in TornPoints} \cup (IF sync THEN {IoSyncErr} ELSE {})

(***************************************************************************)
(* The files a database directory may hold when it is first opened: none   *)
(* (the empty file), a log of whole frames, and such a log followed by a   *)
(* damaged tail, as in wal.rs test_replay_with_corruption.                 *)
(***************************************************************************)
\* a frame with a correct CRC over the given header fields and body
RawFrame(rec_len, version, kind_byte, key_len, val_len, body) ==
    LET covered == to_le_bytes(rec_len) \o <<version, kind_byte>>
                   \o to_le_bytes(key_len) \o to_le_bytes(val_len) \o body
    IN  MAGIC \o covered \o Crc32(covered)

FirstFrame == Encode(Record("Put", <<7>>, <<9>>))

OtherFrame == Encode(Record("Put", <<>>, <<9>>))

TornMagic1 == <<75>>

TornMagic3 == <<75, 86, 83>>

BadMagic == <<88, 88, 88, 88>>

\* "KVSL garbage data"
GarbageData == MAGIC \o <<32, 103, 97, 114, 98, 97, 103, 101, 32, 100, 97, 116, 97>>

BadCrc == [OtherFrame EXCEPT ![Len(OtherFrame)] = (@ + 1) % 256]

BadVersion == RawFrame(22, 2, KIND_PUT, 0, 0, <<>>)

BadKind == RawFrame(22, VERSION, 3, 0, 0, <<>>)

ShortRecLen == MAGIC \o to_le_bytes(10) \o <<VERSION, KIND_PUT>>

HugeRecLen == MAGIC \o <<0, 0, 0, 128>> \o <<VERSION, KIND_PUT>>

TornFrame == SubSeq(OtherFrame, 1, 12)

HugeKeyLen == RawFrame(22, VERSION, KIND_PUT, 2000, 0, <<>>)

DamagedTails ==
    { TornMagic1, TornMagic3, BadMagic, GarbageData, BadCrc, BadVersion, BadKind,
      ShortRecLen, HugeRecLen, TornFrame, HugeKeyLen }

InitFiles == {<<>>, FirstFrame} \cup {FirstFrame \o tail : tail \in DamagedTails}

(***************************************************************************)
(* State                                                                   *)
(***************************************************************************)
VARIABLES
    file,           \* the bytes of wal.log as the operating system holds them
    synced,         \* length of the prefix of file that is on the device
    isOpen,         \* a Db value exists
    offset,         \* Wal.offset
    index,          \* Db.index
    sync_on_write,  \* Db.opts.sync_on_write
    recovered,      \* the records Wal::open returned to the last Db::open
    replayStats,    \* the ReplayStats Wal::open returned to the last Db::open
    lastOp,         \* the operation that ran last
    lastArgs,       \* the key it was called with and the length of the value
    lastResult,     \* what it returned
    appends, incidents,   \* counters for the bounds
    sessionFailed,  \* this session: some append returned an error
    acked,          \* key -> result of the last put/delete on it that returned Ok
    dirty,          \* keys with an acknowledged operation not yet synced
    unsure,         \* keys whose last operation may or may not be on the device
    atClose,        \* what the last session showed when it was closed
    inflight,       \* the operation interrupted between append and index update
    codec,          \* a reader over a byte string, and what Record::decode gave on it
    second,         \* a second Db value opened on the same directory
    twin            \* a Db given the same calls on a directory of its own, sync on

vars == << file, synced, isOpen, offset, index, sync_on_write, recovered, replayStats,
           lastOp, lastArgs, lastResult, appends, incidents,
           sessionFailed, acked, dirty, unsure, atClose, inflight, codec, second, twin >>

dbVars == << isOpen, offset, index, sync_on_write >>

\* what Wal::open returned is dropped when Db::open returns
OpenResultDropped == recovered' = <<>> /\ replayStats' = ReplayStats(0, 0, 0, 0)

countVars == << appends, incidents >>

\* the reader used on its own, the second Db value and the twin: idle unless
\* a specification says otherwise
standalone == << codec, second, twin >>

NoCodec == [how |-> "none", source |-> <<>>, flipped |-> 0, bytes |-> <<>>, pos |-> 0,
            results |-> <<>>]

NoSecond == [isOpen |-> FALSE, offset |-> 0, index |-> EmptyIndex]

EmptyMap == [k \in {} |-> GetNone]

MapSet(m, key, v) == [k \in DOMAIN m \cup {key} |-> IF k = key THEN v ELSE m[k]]

OkUnit == [tag |-> "Ok", value |-> <<>>, err |-> ""]

\* what get returns for each key the callers use
VisibleMap(idx, f) == [k \in SmallKeys |-> DbGet(idx, f, k)]

Args(key, value) == [key |-> key, val_len |-> Len(value)]

NoArgs == Args(<<>>, <<>>)

\* what the last Db::open returned and left in the file, and whether an
\* open cut a tail from the file, kept for as long as nothing has been
\* written since
NotFresh == [fresh |-> FALSE, records |-> <<>>, repaired |-> FALSE, file |-> <<>>]

NotClosed == [closed |-> FALSE, failed |-> FALSE, sync |-> FALSE, map |-> EmptyMap,
              index |-> EmptyIndex, opened |-> NotFresh]

NoInflight == [active |-> FALSE, key |-> <<>>, res |-> GetNone]

\* the twin on a directory that holds the bytes f
TwinOn(f) == [isOpen |-> FALSE, file |-> f, synced |-> Len(f), offset |-> 0,
              index |-> EmptyIndex, lastResult |-> OkUnit]

NoTwin == TwinOn(<<>>)

InitDb ==
    /\ file \in InitFiles
    /\ synced = Len(file)
    /\ isOpen = FALSE
    /\ offset = 0
    /\ index = EmptyIndex
    /\ sync_on_write = TRUE
    /\ recovered = <<>>
    /\ replayStats = ReplayStats(0, 0, 0, 0)
    /\ lastOp = "init"
    /\ lastArgs = NoArgs
    /\ lastResult = OkUnit
    /\ appends = 0
    /\ incidents = 0
    /\ sessionFailed = FALSE
    /\ acked = EmptyMap
    /\ dirty = {}
    /\ unsure = {}
    /\ atClose = NotClosed
    /\ inflight = NoInflight

Init == InitDb /\ codec = NoCodec /\ second = NoSecond /\ twin = NoTwin

(***************************************************************************)
(* Operations                                                              *)
(***************************************************************************)
\* Wal::open gone wrong: replay reports the damaged tail and leaves it in
\* the file
WalOpenNoRepair(f) ==
    LET r == Replay(f)
    IN  [records |-> r.records, stats |-> r.stats, file |-> f, offset |-> Len(f)]

\* Wal::open: replay, then the cached offset is the length of the file
WalOpen(f) ==
    LET r == Replay(f)
    IN  [records |-> r.records, stats |-> r.stats, file |-> r.file, offset |-> Len(r.file)]

\* Db::open(path, Options { sync_on_write: sync })
OpenDb(sync) ==
    /\ ~isOpen
    /\ \E w \in {WalOpen(file)} :
           /\ file' = w.file
           /\ synced' = IF synced < Len(w.file) THEN synced ELSE Len(w.file)
           /\ offset' = w.offset
           /\ index' = RebuildIndex(w.records)
           /\ recovered' = w.records
           /\ replayStats' = w.stats
           /\ atClose' = [atClose EXCEPT !.opened =
                             [fresh |-> TRUE, records |-> w.records,
                              repaired |-> \/ w.stats.truncated_bytes > 0
                                           \/ atClose.opened.repaired,
                              file |-> w.file]]
    /\ isOpen' = TRUE
    /\ sync_on_write' = sync
    /\ lastOp' = "open"
    /\ lastArgs' = NoArgs
    /\ lastResult' = OkUnit
    /\ sessionFailed' = FALSE
    /\ UNCHANGED << countVars, acked, dirty, unsure, inflight, codec, second >>

Open(sync) == OpenDb(sync) /\ UNCHANGED twin

\* the part of put and delete from Wal::append on: `appended` is what
\* Wal::append did, idx the index the call leaves, shown what get(key)
\* is to return afterwards if the call succeeded
Mutate(key, shown, io, appended, idx) ==
    /\ file' = appended.file
    /\ synced' = appended.synced
    /\ offset' = appended.offset
    /\ index' = idx
    /\ lastResult' = IF appended.res.tag = "Ok" THEN OkUnit
                     ELSE [tag |-> "Err", value |-> <<>>, err |-> appended.res.err]
    /\ appends' = appends + 1
    /\ incidents' = IF io.kind = "ok" THEN incidents ELSE incidents + 1
    /\ IF appended.res.tag = "Ok"
       THEN /\ acked' = MapSet(acked, key, shown)
            /\ dirty' = IF sync_on_write THEN {} ELSE dirty \cup {key}
            /\ unsure' = unsure \ {key}
            /\ sessionFailed' = sessionFailed
       ELSE /\ sessionFailed' = TRUE
            /\ unsure' = IF io.kind = "sync_err" THEN unsure \cup {key} ELSE unsure
            /\ UNCHANGED << acked, dirty >>
    /\ atClose' = NotClosed
    /\ inflight' = NoInflight
    /\ OpenResultDropped
    /\ UNCHANGED << isOpen, sync_on_write, codec, second >>

\* a call refused before Wal::append: only its result is new
Rejected(e) ==
    /\ lastResult' = [tag |-> "Err", value |-> <<>>, err |-> e]
    /\ OpenResultDropped
    /\ UNCHANGED << file, synced, dbVars, countVars,
                    sessionFailed, acked, dirty, unsure, atClose, inflight, codec, second >>

\* Db::put(key, value); io is what the file system does during the append
PutDb(key, value, io) ==
    /\ isOpen
    /\ lastOp' = "put"
    /\ lastArgs' = Args(key, value)
    /\ \E r \in {RecordPut(key, value)} :
           IF r.tag = "Err"
           THEN io = IoOk /\ Rejected(r.err)
           ELSE /\ appends < MaxAppends
                /\ io \in IoOutcomes(sync_on_write)
                /\ io.kind # "ok" => incidents < MaxIncidents
                /\ \E appended \in {WalAppend(file, offset, synced, r.val, sync_on_write, io)} :
                        Mutate(key, GetSome(value), io, appended,
                               PutIndex(index, appended, r.val))

Put(key, value, io) == PutDb(key, value, io) /\ UNCHANGED twin

\* Db::delete(key)
DeleteDb(key, io) ==
    /\ isOpen
    /\ lastOp' = "delete"
    /\ lastArgs' = Args(key, <<>>)
    /\ \E r \in {RecordDelete(key)} :
           IF r.tag = "Err"
           THEN io = IoOk /\ Rejected(r.err)
           ELSE /\ appends < MaxAppends
                /\ io \in IoOutcomes(sync_on_write)
                /\ io.kind # "ok" => incidents < MaxIncidents
                /\ \E appended \in {WalAppend(file, offset, synced, r.val, sync_on_write, io)} :
                        Mutate(key, GetNone, io, appended,
                               DeleteIndex(index, appended, r.val))

Delete(key, io) == DeleteDb(key, io) /\ UNCHANGED twin

\* Db::get gone wrong: a key whose value cannot be read is dropped from the
\* index
GetDbEvicting(key) ==
    /\ isOpen
    /\ lastOp' = "get"
    /\ lastArgs' = Args(key, <<>>)
    /\ lastResult' = DbGet(index, file, key)
    /\ index' = IF DbGet(index, file, key).tag = "Err" THEN IndexRemove(index, key)
                ELSE index
    /\ OpenResultDropped
    /\ UNCHANGED << file, synced, isOpen, offset, sync_on_write, countVars,
                    sessionFailed, acked, dirty, unsure, atClose, inflight, codec, second >>

\* Db::get(key)
GetDb(key) ==
    /\ isOpen
    /\ lastOp' = "get"
    /\ lastArgs' = Args(key, <<>>)
    /\ lastResult' = DbGet(index, file, key)
    /\ OpenResultDropped
    /\ UNCHANGED << file, synced, dbVars, countVars,
                    sessionFailed, acked, dirty, unsure, atClose, inflight, codec, second >>

Get(key) == GetDb(key) /\ UNCHANGED twin

\* the Db value is gone (dropped, or its process died): nothing of it is left
NoDb ==
    /\ isOpen' = FALSE
    /\ offset' = 0
    /\ index' = EmptyIndex
    /\ sync_on_write' = TRUE
    /\ OpenResultDropped
    /\ lastResult' = OkUnit
    /\ sessionFailed' = FALSE
    /\ UNCHANGED << codec, second >>

\* drop(db): both file handles are released, nothing is written
CloseDb ==
    /\ isOpen
    /\ NoDb
    /\ lastOp' = "close"
    /\ lastArgs' = NoArgs
    /\ atClose' = [closed |-> TRUE, failed |-> sessionFailed, sync |-> sync_on_write,
                   map |-> VisibleMap(index, file), index |-> index,
                   opened |-> atClose.opened]
    /\ inflight' = NoInflight
    /\ UNCHANGED << file, synced, countVars, acked, dirty, unsure >>

Close == CloseDb /\ UNCHANGED twin

\* The records put and delete hand to Wal::append
ValidRecords ==
    {Record("Put", k, v) : k \in SmallKeys, v \in SmallValues}
        \cup {Record("Delete", k, <<>>) : k \in SmallKeys}

ShownAfter(record) == IF record.kind = "Put" THEN GetSome(record.value) ELSE GetNone

\* the process dies in put or delete after Wal::append returned Ok and
\* before the index is touched
CrashAfterAppend(record) ==
    /\ isOpen
    /\ appends < MaxAppends
    /\ incidents < MaxIncidents
    /\ \E appended \in {WalAppend(file, offset, synced, record, sync_on_write, IoOk)} :
           /\ file' = appended.file
           /\ synced' = appended.synced
    /\ NoDb
    /\ lastOp' = "crash"
    /\ lastArgs' = NoArgs
    /\ appends' = appends + 1
    /\ incidents' = incidents + 1
    /\ inflight' = [active |-> TRUE, key |-> record.key, res |-> ShownAfter(record)]
    /\ unsure' = unsure \cup {record.key}
    /\ atClose' = NotClosed
    /\ UNCHANGED << acked, dirty, twin >>

\* the process dies inside write_all when n bytes of the frame are written
CrashDuringAppend(record, n) ==
    /\ isOpen
    /\ appends < MaxAppends
    /\ incidents < MaxIncidents
    /\ n \in TornPoints \ {0}
    /\ file' = file \o SubSeq(Encode(record), 1, n)
    /\ NoDb
    /\ lastOp' = "crash"
    /\ lastArgs' = NoArgs
    /\ appends' = appends + 1
    /\ incidents' = incidents + 1
    /\ inflight' = NoInflight
    /\ atClose' = NotClosed
    /\ UNCHANGED << synced, acked, dirty, unsure, twin >>

\* where a host crash may cut the bytes that were never synced
CrashCuts == {synced, Len(file)} \cup {n \in {synced + 2, synced + 9} : n < Len(file)}

\* the host loses power: of the bytes not on the device a prefix survives
HostCrash(n) ==
    /\ incidents < MaxIncidents
    /\ file' = SubSeq(file, 1, n)
    /\ synced' = IF synced < n THEN synced ELSE n
    /\ NoDb
    /\ lastOp' = "host_crash"
    /\ lastArgs' = NoArgs
    /\ incidents' = incidents + 1
    /\ unsure' = unsure \cup dirty
    /\ dirty' = {}
    /\ inflight' = IF n = Len(file) THEN inflight ELSE NoInflight
    /\ atClose' = NotClosed
    /\ UNCHANGED << appends, acked, twin >>

Next ==
    \/ \E sync \in BOOLEAN : Open(sync)
    \/ \E key \in SmallKeys, value \in SmallValues, io \in IoOutcomes(TRUE) :
            Put(key, value, io)
    \/ \E key \in SmallKeys, io \in IoOutcomes(TRUE) : Delete(key, io)
    \/ \E key \in SmallKeys : Get(key)
    \/ Close
    \/ \E record \in ValidRecords : CrashAfterAppend(record)
    \/ \E record \in ValidRecords, n \in TornPoints : CrashDuringAppend(record, n)
    \/ \E n \in CrashCuts : HostCrash(n)

Spec == Init /\ [][Next]_vars

(***************************************************************************)
(* The same operations on a fresh database, called also with keys and      *)
(* values at the size limits and one byte beyond them.                     *)
(***************************************************************************)
InitLimits == Init /\ file = <<>>

PutAtLimits ==
    \E key \in SmallKeys \cup LimitKeys, value \in SmallValues \cup LimitValues :
        /\ key \in LimitKeys \/ value \in LimitValues
        /\ Put(key, value, IoOk)

DeleteAtLimits == \E key \in LimitKeys : Delete(key, IoOk)

GetAtLimits == \E key \in LimitKeys : Get(key)

NextLimits ==
    \/ Open(TRUE)
    \/ PutAtLimits
    \/ DeleteAtLimits
    \/ GetAtLimits
    \/ Close

SpecLimits == InitLimits /\ [][NextLimits]_vars

(***************************************************************************)
(* Properties                                                              *)
(***************************************************************************)
\* the step is a put or delete that returned Ok in a session in which no
\* call has returned an error
SuccessfulStep(op) == isOpen /\ lastOp' = op /\ lastResult'.tag = "Ok" /\ ~sessionFailed'

\* C1: within one session of successful calls, a put(key, value) makes
\* get(key) return Some(value), also when value is empty; a delete(key)
\* makes get(key) return absent; neither changes what get returns for any
\* other key; and get returns what the index and the file show and changes
\* neither.
ReadYourWrites ==
    [][ /\ SuccessfulStep("put") =>
              \A key \in SmallKeys, value \in SmallValues :
                  Put(key, value, IoOk) =>
                      \A k \in SmallKeys :
                          DbGet(index', file', k) =
                              IF k = key THEN GetSome(value) ELSE DbGet(index, file, k)
        /\ SuccessfulStep("delete") =>
              \A key \in SmallKeys :
                  Delete(key, IoOk) =>
                      \A k \in SmallKeys :
                          DbGet(index', file', k) =
                              IF k = key THEN GetNone ELSE DbGet(index, file, k)
        /\ lastOp' = "get" =>
              /\ lastResult' = DbGet(index, file, lastArgs'.key)
              /\ VisibleMap(index', file') = VisibleMap(index, file)
      ]_vars

\* C1 witness: after a put and a delete that succeeded, a key put with the
\* empty value is read back as Some(empty)
ReadYourWritesWitness ==
    /\ isOpen /\ ~sessionFailed /\ appends >= 2
    /\ lastOp = "put" /\ lastResult.tag = "Ok" /\ lastArgs.val_len = 0
    /\ DbGet(index, file, lastArgs.key) = GetSome(<<>>)
    /\ \E k \in SmallKeys : k # lastArgs.key /\ k \in DOMAIN acked /\ acked[k] = GetNone

\* C2: after a session with sync_on_write = true in which every call
\* succeeded and which was closed by drop, the next open shows the mapping
\* the session showed when it was closed.
PersistenceAcrossRestart ==
    (lastOp = "open" /\ atClose.closed /\ ~atClose.failed /\ atClose.sync)
        => VisibleMap(index, file) = atClose.map

\* the offset at which the whole frames at the head of f end: the first
\* position from which no frame decodes
RECURSIVE WholeFramesEnd(_, _)
WholeFramesEnd(f, pos) ==
    LET d == Decode(f, pos)
    IN  IF d.tag = "Some" THEN WholeFramesEnd(f, d.next) ELSE pos

\* the records of those frames, in order
RECURSIVE WholeFramesRecords(_, _)
WholeFramesRecords(f, pos) ==
    LET d == Decode(f, pos)
    IN  IF d.tag = "Some" THEN <<d.rec>> \o WholeFramesRecords(f, d.next) ELSE <<>>

\* C3: open leaves the file equal to its prefix of whole frames, whatever
\* follows that prefix (nothing, 1 to 3 bytes, or more), and returns the
\* records of that prefix in order.
TruncationCorrect ==
    [][ lastOp' = "open" =>
            /\ file' = SubSeq(file, 1, WholeFramesEnd(file, 0))
            /\ recovered' = WholeFramesRecords(file, 0)
      ]_vars

\* C4: with sync_on_write = true, what a put or delete that returned Ok did
\* to its key is what get shows after a host crash and the next open.  (A
\* key in unsure had a later operation whose outcome the caller cannot know.)
AckedSurvivesHostCrash ==
    [][ (lastOp = "host_crash" /\ lastOp' = "open") =>
            \A k \in DOMAIN acked \ unsure : DbGet(index', file', k) = acked[k]
      ]_vars

\* C5: put and delete change the index only in a call whose Wal::append
\* succeeded, that is after the whole frame is in the file (and on the
\* device when sync_on_write is set); a call whose append fails returns the
\* error and leaves the index as it was.
IndexAfterAck ==
    [][ (isOpen /\ lastOp' \in {"put", "delete"}) =>
            /\ lastResult'.tag = "Err" =>
                  (index' = index /\ lastResult'.err \in {"Io", "KeyTooLarge", "ValueTooLarge"})
            /\ index' # index =>
                  /\ lastResult'.tag = "Ok"
                  /\ \E record \in ValidRecords : file' = file \o Encode(record)
                  /\ sync_on_write => synced' = Len(file')
      ]_vars

\* C5 witness: an append failed with a part of its frame written, over an
\* index that holds an entry, and the call returned the error
IndexAfterAckWitness ==
    /\ isOpen /\ lastOp \in {"put", "delete"}
    /\ lastResult.tag = "Err" /\ lastResult.err = "Io"
    /\ Len(file) > offset
    /\ DOMAIN index # {}

\* the entry of key k is the position of the value of a Put frame for k
\* that decodes from the file: the frame starts 18 + |k| bytes before offset
LocatesValue(idx, f, k) ==
    LET start == idx[k].offset - 18 - Len(k)
    IN  /\ start >= 0
        /\ LET d == Decode(f, start)
           IN  /\ d.tag = "Some"
               /\ d.rec.kind = "Put"
               /\ d.rec.key = k
               /\ Len(d.rec.value) = idx[k].len
        /\ idx[k].offset + idx[k].len <= Len(f)

\* C6: between operations, after open and after every put, delete and get
\* whether it succeeded or failed, each index entry key -> (offset, len)
\* is the position of the value bytes of a Put frame for that key in
\* wal.log: offset = frame start + 18 + key_len, len = val_len, and
\* offset + len is within the file.
IndexLocatesValues ==
    isOpen => \A k \in DOMAIN index : LocatesValue(index, file, k)

\* C7: when the process died after Wal::append of a put or delete had
\* returned Ok and before the index was updated, the next open shows the
\* key with the value put, or absent for a delete.
InterruptedReinstated ==
    (lastOp = "open" /\ inflight.active)
        => DbGet(index, file, inflight.key) = inflight.res

\* C8: after a session in which an append failed with an I/O error and
\* further calls followed, the next open shows for every key the effect of
\* the last call on it that returned Ok, made before or after the failure.
\* (A key in unsure had a later call fail after its whole frame was written.)
FailedAppendRepaired ==
    (lastOp = "open" /\ atClose.closed /\ atClose.failed)
        => \A k \in DOMAIN acked \ unsure : DbGet(index, file, k) = acked[k]

\* the call returned the error e and wrote nothing: the file, the cached
\* offset of the WAL and the index are what they were
RefusedWith(e) ==
    /\ lastResult' = [tag |-> "Err", value |-> <<>>, err |-> e]
    /\ file' = file
    /\ offset' = offset
    /\ index' = index

OpenAbsorbsCorruption ==
    [][ lastOp' = "open" =>
            /\ lastResult' = OkUnit /\ isOpen'
            /\ WholeFramesEnd(file, 0) < Len(file) =>
                  /\ Len(file') = WholeFramesEnd(file, 0)
                  /\ replayStats'.corrupted_records = 1
                  /\ replayStats'.truncated_bytes = Len(file) - WholeFramesEnd(file, 0)
      ]_vars

\* a delete(key) whose append met no I/O error returns Ok whether or not
\* the key is present, appends one Delete frame of 22 + |key| bytes, moves
\* the logical size of the WAL by as much, removes the key and leaves every
\* other entry as it was
DeleteLogged ==
    (isOpen /\ lastOp' = "delete" /\ Delete(lastArgs'.key, IoOk)) =>
        /\ lastResult' = OkUnit
        /\ file' = file \o Encode(Record("Delete", lastArgs'.key, <<>>))
        /\ Len(file') = Len(file) + 22 + Len(lastArgs'.key)
        /\ offset' = offset + 22 + Len(lastArgs'.key)
        /\ DOMAIN index' = DOMAIN index \ {lastArgs'.key}
        /\ \A k \in DOMAIN index' : index'[k] = index[k]

\* a session in which every call succeeded was closed and the database is
\* open again: a key whose last successful operation is a delete is absent
DeletedAbsentAfterReopen ==
    (lastOp = "open" /\ atClose.closed /\ ~atClose.failed) =>
        \A k \in DOMAIN acked \ unsure :
            acked[k] = GetNone => DbGet(index, file, k) = GetNone

\* C11: delete is idempotent and always logged: delete(k) succeeds whether
\* or not k is present (so delete(k); delete(k) succeeds twice), each call
\* appends one Delete frame, wal_size growing by 22 + |k|, and leaves every
\* other key's entry unchanged; and after reopening k is absent.
IdempotentDelete == [][DeleteLogged]_vars /\ []DeletedAbsentAfterReopen

\* the part of C11 about the calls themselves
DeleteLoggedAlways == [][DeleteLogged]_vars

(***************************************************************************)
(* The codec on its own: Record::encode and Record::decode over a reader   *)
(***************************************************************************)
\* the longest run of frames handed to the reader
MaxFrames == 2

MidValue == Zeros(300)

\* records within the limits: both kinds, empty and non-empty fields, and
\* lengths that need more than one byte of key_len and val_len
SmallRecords ==
    {Record(kind, key, IF kind = "Put" THEN value ELSE <<>>) :
        kind \in {"Put", "Delete"}, key \in SmallKeys, value \in SmallValues}

CodecRecords ==
    SmallRecords \cup {Record("Put", LimitKey, <<9>>), Record("Put", <<7>>, MidValue),
                       Record("Delete", LimitKey, <<>>)}

\* the records whose frames get one bit flipped
FlipRecords == {Record("Put", <<7>>, <<9>>), Record("Delete", <<7>>, <<>>),
                Record("Put", <<>>, <<>>)}

RECURSIVE EncodeAll(_)
\* what successive Record::encode calls leave in one buffer
EncodeAll(records) ==
    IF records = <<>> THEN <<>>
    ELSE Encode(Head(records)) \o EncodeAll(Tail(records))

\* bit `bit` (counted from 1, least significant first) of the buffer inverted
FlipBit(bytes, bit) ==
    LET at == ((bit - 1) \div 8) + 1
        mask == 2 ^ ((bit - 1) % 8)
    IN [bytes EXCEPT ![at] = Xor(@, mask)]

\* std::io::Cursor::new(bytes): a reader at position 0
Cursor(source, flipped, bytes) ==
    [how |-> IF flipped = 0 THEN "whole" ELSE "flipped",
     source |-> source, flipped |-> flipped, bytes |-> bytes, pos |-> 0, results |-> <<>>]

\* a reader over bytes made in another way: `how` says which
CursorOn(how, source, bytes) == [Cursor(source, 0, bytes) EXCEPT !.how = how]

\* one record within the limits, followed by up to MaxFrames - 1 small ones
CodecSources ==
    {<<first>> \o rest : first \in CodecRecords,
        rest \in UNION {[1..n -> SmallRecords] : n \in 0..(MaxFrames - 1)}}

WholeCursors == {Cursor(source, 0, EncodeAll(source)) : source \in CodecSources}

FlippedCursors ==
    UNION {{Cursor(<<record>>, bit, FlipBit(Encode(record), bit)) :
                bit \in 1..(8 * (22 + Len(record.key) + Len(record.value)))} :
           record \in FlipRecords}

\* the empty input, and every non-empty proper prefix of the frame of a
\* small record
CutCursors ==
    {CursorOn("cut", <<>>, <<>>)} \cup
    UNION {{CursorOn("cut", <<record>>, SubSeq(Encode(record), 1, n)) :
                n \in 1..(21 + Len(record.key) + Len(record.value))} :
           record \in FlipRecords}

\* the frame of `record` with `pad` bytes between the value and the CRC,
\* rec_len and CRC covering them
PaddedFrame(record, pad) ==
    RawFrame(22 + Len(record.key) + Len(record.value) + pad, VERSION,
             KindByte(record.kind), Len(record.key), Len(record.value),
             record.key \o record.value \o Zeros(pad))

PaddedCursors ==
    {CursorOn("padded", <<record>>, PaddedFrame(record, pad)) :
        record \in FlipRecords, pad \in {1, 2}}

\* rec_len fields at and around the two bounds, and with the top bit set
RecLenFields ==
    {to_le_bytes(n) : n \in {0, 8, 21, 22, MAX_RECORD_SIZE, MAX_RECORD_SIZE + 1}}
    \cup {<<0, 0, 0, 128>>, <<255, 255, 255, 255>>}

\* a magic and a rec_len field with nothing or 14 zero bytes behind them
RecLenCursors ==
    {CursorOn("rec_len", <<>>, MAGIC \o field \o Zeros(tail)) :
        field \in RecLenFields, tail \in {0, 14}}

\* key and value lengths within the limits: the ends of the ranges and the
\* places where a length field needs one more byte
LegalKeyLens == {0, 1, 255, 256, MAX_KEY_SIZE}

LegalValueLens == {0, 1, 255, 256, 65535, 65536, MAX_VALUE_SIZE - 1, MAX_VALUE_SIZE}

\* the magic and header that encode writes for a record of those lengths;
\* the key and value bytes themselves are left out
HeaderCursors ==
    {CursorOn("header", <<[kind |-> kind, key_len |-> key_len, val_len |-> val_len]>>,
              MAGIC \o FrameHeader(kind, key_len, val_len)) :
        kind \in {"Put", "Delete"}, key_len \in LegalKeyLens, val_len \in LegalValueLens}

\* Frames of another writer: any version byte, any kind byte, key [7] and
\* value [9], the stored CRC right (crc = 0) or with its crc-th byte changed
ForeignVersions == {0, VERSION, 2, 255}

ForeignKinds == {0, KIND_PUT, KIND_DELETE, 3, 255}

ForeignFrame(version, kind_byte, crc) ==
    LET frame == RawFrame(24, version, kind_byte, 1, 1, <<7, 9>>)
    IN  IF crc = 0 THEN frame
        ELSE [frame EXCEPT ![Len(frame) - 4 + crc] = (@ + 1) % 256]

ForeignCursors ==
    {CursorOn("foreign", <<[version |-> version, kind_byte |-> kind_byte, crc |-> crc]>>,
              ForeignFrame(version, kind_byte, crc)) :
        version \in ForeignVersions, kind_byte \in ForeignKinds, crc \in 0..4}

\* Record values built field by field (the fields are pub), within and
\* beyond the key limit, not yet encoded
UnencodedCursors ==
    {CursorOn("unencoded", <<record>>, <<>>) :
        record \in {Record("Put", <<7>>, <<9>>), Record("Put", OversizeKey, <<9>>),
                    Record("Delete", OversizeKey, <<>>)}}

\* Record::encode(&self): no size is looked at, and writing into a Vec does
\* not fail
EncodeResult(record) == Ok(Encode(record))

InitCodec ==
    /\ InitDb
    /\ file = <<>>
    /\ second = NoSecond
    /\ twin = NoTwin
    /\ codec \in WholeCursors \cup FlippedCursors \cup CutCursors \cup PaddedCursors
                \cup RecLenCursors \cup HeaderCursors \cup UnencodedCursors
                \cup ForeignCursors

\* Record::decode(&mut reader) once more, unless the reader already gave
\* Ok(None) or an error
DecodeNext ==
    /\ codec.how # "unencoded"
    /\ IF codec.results = <<>> THEN TRUE
       ELSE codec.results[Len(codec.results)].tag = "Some"
    /\ \E d \in {Decode(codec.bytes, codec.pos)} :
           codec' = [codec EXCEPT !.pos = IF d.tag = "Some" THEN d.next ELSE @,
                                  !.results = Append(@, d)]
    /\ UNCHANGED << file, synced, dbVars, recovered, replayStats, lastOp, lastArgs,
                    lastResult, countVars, sessionFailed, acked, dirty, unsure,
                    atClose, inflight, second, twin >>

\* record.encode() on a Record not yet encoded, then Cursor::new on the
\* buffer if there is one
EncodeSource ==
    /\ codec.how = "unencoded"
    /\ codec.results = <<>>
    /\ \E encoded \in {EncodeResult(codec.source[1])} :
           codec' = IF encoded.tag = "Ok"
                    THEN [codec EXCEPT !.how = "encoded", !.bytes = encoded.val]
                    ELSE [codec EXCEPT !.results = <<DecErr(encoded.err)>>]
    /\ UNCHANGED << file, synced, dbVars, recovered, replayStats, lastOp, lastArgs,
                    lastResult, countVars, sessionFailed, acked, dirty, unsure,
                    atClose, inflight, second, twin >>

NextCodec == DecodeNext \/ EncodeSource

SpecCodec == InitCodec /\ [][NextCodec]_vars

\* where frame i of the source ends in the buffer
FrameEnd(source, i) ==
    IF i = 0 THEN 0
    ELSE LET RECURSIVE Sum(_)
             Sum(j) == IF j = 0 THEN 0
                       ELSE Sum(j - 1) + 22 + Len(source[j].key) + Len(source[j].value)
         IN Sum(i)

\* C12: for every record r within the limits (|key| <= 1024, value within
\* its limit), Put or Delete, decode(encode(r)) = r, and the decode consumes
\* exactly the encoded frame: a following decode starts at the next frame
\* boundary (and gives Ok(None) at the end of the buffer)
RoundTrip ==
    codec.how = "whole" =>
        \A i \in 1..Len(codec.results) :
            /\ i <= Len(codec.source) =>
                   codec.results[i] = DecSome(codec.source[i], FrameEnd(codec.source, i))
            /\ i > Len(codec.source) => codec.results[i] = DecNone

RoundTripWitness ==
    /\ codec.how = "whole"
    /\ Len(codec.source) = 2
    /\ codec.source[1].key = LimitKey
    /\ codec.source[1].kind = "Put"
    /\ codec.source[2].kind = "Delete"
    /\ Len(codec.results) = 3
    /\ codec.results[2] = DecSome(codec.source[2], Len(codec.bytes))
    /\ codec.pos = Len(codec.bytes)

\* the failures the format description gives for a corrupted frame
CorruptionKinds ==
    {"CrcMismatch", "InvalidMagic", "UnexpectedEof", "UnsupportedVersion", "InvalidRecordKind"}

\* C13: flipping any single bit of encode(r) makes decode fail with one of
\* CrcMismatch, InvalidMagic, UnexpectedEof, UnsupportedVersion,
\* InvalidRecordKind: the corrupted frame is never accepted as a record and
\* no other error kind is returned
BitFlipDetected ==
    (codec.flipped > 0 /\ codec.results # <<>>) =>
        /\ codec.results[1].tag = "Err"
        /\ codec.results[1].err \in CorruptionKinds

\* the part of C13 that the code keeps: a frame with one bit flipped is
\* never accepted and never taken for a clean end of the log
BitFlipRefused ==
    (codec.flipped > 0 /\ codec.results # <<>>) => codec.results[1].tag = "Err"

BitFlipWitness ==
    /\ codec.flipped > 32
    /\ codec.results # <<>>
    /\ codec.results[1] = DecErr("Io")

(***************************************************************************)
(* Bit rot: bytes of wal.log change on the medium while a Db has it open   *)
(***************************************************************************)
\* the bytes of the live frame of `key` that may rot: its value bytes and the
\* last byte of its CRC
RotPoints(key) ==
    {index[key].offset + i : i \in 1..(index[key].len + 4)} \ 
    {index[key].offset + index[key].len + i : i \in 1..3}

RotMasks == {1, 128}

\* one bit of one byte of a live Put frame is inverted on the medium; no
\* code of the program runs
BitRot(key, at, mask) ==
    /\ isOpen
    /\ incidents < MaxIncidents
    /\ key \in DOMAIN index
    /\ at \in RotPoints(key)
    /\ at <= Len(file)
    /\ file' = [file EXCEPT ![at] = Xor(@, mask)]
    /\ incidents' = incidents + 1
    /\ lastOp' = "bitrot"
    /\ lastArgs' = Args(key, <<>>)
    /\ lastResult' = OkUnit
    /\ UNCHANGED << synced, dbVars, recovered, replayStats, appends, sessionFailed,
                    acked, dirty, unsure, atClose, inflight, standalone >>

NextRot ==
    \/ Open(TRUE)
    \/ \E key \in SmallKeys, value \in SmallValues : Put(key, value, IoOk)
    \/ \E key \in SmallKeys : Delete(key, IoOk)
    \/ \E key \in SmallKeys : Get(key)
    \/ Close
    \/ \E key \in SmallKeys, at \in 1..(2 * 24), mask \in RotMasks : BitRot(key, at, mask)

SpecRot == InitLimits /\ [][NextRot]_vars

\* the value bytes the index points at for `key` are no longer the bytes
\* the acknowledged put wrote
ValueRotted(key) ==
    /\ key \in DOMAIN index
    /\ key \in DOMAIN acked
    /\ acked[key].tag = "Some"
    /\ index[key].offset + index[key].len <= Len(file)
    /\ Slice(file, index[key].offset, index[key].len) # acked[key].value

GetAfterRot ==
    (isOpen /\ lastOp' = "get" /\ ValueRotted(lastArgs'.key)) =>
        /\ lastResult'.tag = "Err"
        /\ lastResult' # GetSome(Slice(file, index[lastArgs'.key].offset,
                                       index[lastArgs'.key].len))

\* C14: if bytes of a live Put frame are corrupted after being written
\* (bit rot), a later get of that key reports an error and never returns
\* the altered bytes
BitRotSurfaced == [][GetAfterRot]_vars

\* a get returned bytes that no put of that key ever wrote
BitRotWitness ==
    /\ lastOp = "get"
    /\ lastResult.tag = "Some"
    /\ lastArgs.key \in DOMAIN acked
    /\ acked[lastArgs.key].tag = "Some"
    /\ lastResult # acked[lastArgs.key]
    /\ incidents = 1

(***************************************************************************)
(* The index that Db::open rebuilds                                        *)
(***************************************************************************)
RECURSIVE FoldFrames(_, _, _)
\* the left fold over the frames of f from pos on: a Put sets its key to
\* (start of the frame + 18 + key_len, val_len), a Delete removes its key
FoldFrames(f, pos, idx) ==
    LET d == Decode(f, pos)
        key == d.rec.key
    IN  IF d.tag # "Some" THEN idx
        ELSE FoldFrames(f, d.next,
                 IF d.rec.kind = "Put"
                 THEN [k \in DOMAIN idx \cup {key} |->
                          IF k = key
                          THEN [offset |-> pos + 18 + Len(key), len |-> Len(d.rec.value)]
                          ELSE idx[k]]
                 ELSE [k \in DOMAIN idx \ {key} |-> idx[k]])

\* the place in the sequence of the last record on `key`, 0 if there is none
LastOn(records, key) ==
    LET places == {i \in 1..Len(records) : records[i].key = key}
    IN  IF places = {} THEN 0 ELSE CHOOSE i \in places : \A j \in places : j <= i

\* the entry of each key is decided by the last record on it alone
LastRecordDecides(records, idx) ==
    \A key \in SmallKeys :
        LET last == LastOn(records, key)
        IN  IF last = 0 \/ records[IF last = 0 THEN 1 ELSE last].kind = "Delete"
            THEN key \notin DOMAIN idx
            ELSE /\ key \in DOMAIN idx
                 /\ idx[key].offset = FrameEnd(records, last - 1) + 18 + Len(key)
                 /\ idx[key].len = Len(records[last].value)

RebuiltAtOpen ==
    lastOp' = "open" =>
        /\ index' = FoldFrames(file', 0, EmptyIndex)
        /\ LastRecordDecides(recovered', index')

\* C15: for any sequence of records returned by replay, rebuild_index gives
\* the left fold in which each Put sets its key to (start of that frame + 18
\* + key_len, val_len) and each Delete removes its key; the result depends
\* only on the last record of each key
RebuildIsFold == [][RebuiltAtOpen]_vars

RebuildIsFoldWitness ==
    /\ lastOp = "open"
    /\ Len(recovered) = 3
    /\ recovered[1].kind = "Put"
    /\ recovered[2] = Record("Delete", recovered[1].key, <<>>)
    /\ recovered[3].kind = "Put"
    /\ recovered[3].key # recovered[1].key
    /\ DOMAIN index = {recovered[3].key}

\* C16: after any sequence of successful put/delete calls and a clean close,
\* the index reconstructed by open is identical (offset and length for
\* every key) to the index the session held just before close
IndexRebuiltIdentical ==
    (lastOp = "open" /\ atClose.closed /\ ~atClose.failed) => index = atClose.index

(***************************************************************************)
(* Db::stats                                                               *)
(***************************************************************************)
\* DbStats { key_count, wal_size }, as the pair << key_count, wal_size >>
DbStats(key_count, wal_size) == << key_count, wal_size >>

\* Wal::size
WalSize(wal_offset) == wal_offset

\* Db::stats(&self)
Stats ==
    /\ isOpen
    /\ lastOp' = "stats"
    /\ lastArgs' = NoArgs
    /\ lastResult' = [tag |-> "Ok", err |-> "",
                      value |-> DbStats(Cardinality(DOMAIN index), WalSize(offset))]
    /\ OpenResultDropped
    /\ UNCHANGED << file, synced, dbVars, countVars,
                    sessionFailed, acked, dirty, unsure, atClose, inflight, standalone >>

NextStats ==
    \/ \E sync \in BOOLEAN : Open(sync)
    \/ \E key \in SmallKeys, value \in SmallValues, io \in IoOutcomes(TRUE) :
            Put(key, value, io)
    \/ \E key \in SmallKeys, io \in IoOutcomes(TRUE) : Delete(key, io)
    \/ \E key \in SmallKeys : Get(key)
    \/ Close
    \/ Stats

SpecStats == InitLimits /\ [][NextStats]_vars

\* the keys whose most recent acknowledged operation is a put
LiveKeys == {k \in DOMAIN acked : acked[k].tag = "Some"}

\* what a call of stats made in the state before the step and one made in
\* the state after it would return as key_count: `before` and `after`; a key
\* is new when get would not find it, live when it would
KeyCountStep(before, after) ==
    LET key == lastArgs'.key
        ok == lastResult'.tag = "Ok"
    IN  /\ (lastOp' = "open" /\ file = <<>>) => after = 0
        /\ lastOp' = "put" =>
               after = IF ok /\ key \notin DOMAIN index THEN before + 1 ELSE before
        /\ lastOp' = "delete" =>
               after = IF ok /\ key \in DOMAIN index THEN before - 1 ELSE before
        /\ lastOp' \in {"get", "stats"} => after = before

StatsStep ==
    /\ (isOpen /\ isOpen') =>
           KeyCountStep(Cardinality(DOMAIN index), Cardinality(DOMAIN index'))
    /\ (lastOp' = "open") =>
           KeyCountStep(0, Cardinality(DOMAIN index'))
    /\ lastOp' = "stats" =>
           /\ lastResult'.value[1] = Cardinality(DOMAIN index)
           /\ lastResult'.value[2] = offset
           /\ UNCHANGED << file, synced, offset, index >>

\* stats taken while every call so far has succeeded: key_count is the
\* number of keys whose most recent successful operation is a put, wal_size
\* the length of the log
StatsSnapshot ==
    (lastOp = "stats" /\ incidents = 0) =>
        /\ lastResult.value[1] = Cardinality(LiveKeys)
        /\ lastResult.value[2] = Len(file)

ExpectedStats(f, end) ==
    [valid_records |-> Len(WholeFramesRecords(f, 0)),
     corrupted_records |-> IF end = Len(f) THEN 0 ELSE 1,
     truncated_bytes |-> Len(f) - end]

StatsOfReplay(f) ==
    \E end \in {WholeFramesEnd(f, 0)} :
        /\ replayStats'.valid_records = ExpectedStats(f, end).valid_records
        /\ replayStats'.corrupted_records = ExpectedStats(f, end).corrupted_records
        /\ replayStats'.truncated_bytes = ExpectedStats(f, end).truncated_bytes

\* C18: ReplayStats is accurate: a log of n whole valid frames gives
\* valid_records = n, corrupted_records = 0, truncated_bytes = 0; n valid
\* frames followed by a suffix S that does not decode give valid_records =
\* n, corrupted_records = 1 and truncated_bytes = |S| > 0
ReplayStatsAccurate == [][lastOp' = "open" => StatsOfReplay(file)]_vars

\* the same, leaving out suffixes shorter than the 4 bytes of a magic
ReplayStatsAccurateFromMagic ==
    [][(lastOp' = "open" /\ Len(file) - WholeFramesEnd(file, 0) \notin 1..3)
            => StatsOfReplay(file)]_vars

ReplayStatsWitness ==
    /\ lastOp = "open"
    /\ replayStats = ReplayStats(1, 1, 0, 0)
    /\ Len(file) \in 25..27

(***************************************************************************)
(* sync_on_write: one Db without it and its twin with it, given the same   *)
(* calls while the file system does the same to both                       *)
(***************************************************************************)
InitSync == InitDb /\ codec = NoCodec /\ second = NoSecond /\ twin = TwinOn(file)

\* what the file system may do during an append in either mode
SharedOutcomes == IoOutcomes(FALSE)

\* Db::open(path, Options { sync_on_write: true }) by the twin
TwinOpen(t) ==
    LET w == WalOpen(t.file)
    IN  [isOpen |-> TRUE, file |-> w.file,
         synced |-> IF t.synced < Len(w.file) THEN t.synced ELSE Len(w.file),
         offset |-> w.offset, index |-> RebuildIndex(w.records), lastResult |-> OkUnit]

\* Db::put / Db::delete by the twin: r is what Record::put or
\* Record::delete returned
TwinMutate(t, r, io) ==
    IF r.tag = "Err"
    THEN [t EXCEPT !.lastResult = [tag |-> "Err", value |-> <<>>, err |-> r.err]]
    ELSE LET appended == WalAppend(t.file, t.offset, t.synced, r.val, TRUE, io)
         IN  [t EXCEPT !.file = appended.file,
                       !.synced = appended.synced,
                       !.offset = appended.offset,
                       !.index = IF r.val.kind = "Put"
                                 THEN PutIndex(t.index, appended, r.val)
                                 ELSE DeleteIndex(t.index, appended, r.val),
                       !.lastResult = IF appended.res.tag = "Ok" THEN OkUnit
                                      ELSE [tag |-> "Err", value |-> <<>>,
                                            err |-> appended.res.err]]

\* drop(db) by the twin
TwinClose(t) == [TwinOn(t.file) EXCEPT !.synced = t.synced]

OpenBoth == OpenDb(FALSE) /\ twin' = TwinOpen(twin)

PutBoth(key, value, io) ==
    PutDb(key, value, io) /\ twin' = TwinMutate(twin, RecordPut(key, value), io)

DeleteBoth(key, io) ==
    DeleteDb(key, io) /\ twin' = TwinMutate(twin, RecordDelete(key), io)

GetBoth(key) ==
    GetDb(key) /\ twin' = [twin EXCEPT !.lastResult = DbGet(twin.index, twin.file, key)]

CloseBoth == CloseDb /\ twin' = TwinClose(twin)

NextSync ==
    \/ OpenBoth
    \/ \E key \in SmallKeys, value \in SmallValues, io \in SharedOutcomes :
            PutBoth(key, value, io)
    \/ \E key \in SmallKeys, io \in SharedOutcomes : DeleteBoth(key, io)
    \/ \E key \in SmallKeys : GetBoth(key)
    \/ CloseBoth

SpecSync == InitSync /\ [][NextSync]_vars

FirstUntouched ==
    UNCHANGED << synced, dbVars, recovered, replayStats, incidents, sessionFailed,
                 acked, dirty, unsure, atClose, inflight, codec, twin >>

\* Db::open on the directory by the second Db: Wal::open takes no lock and
\* looks for no other owner
SecondOpen ==
    /\ ~second.isOpen
    /\ \E w \in {WalOpen(file)} :
           /\ file' = w.file
           /\ second' = [isOpen |-> TRUE, offset |-> w.offset,
                         index |-> RebuildIndex(w.records)]
    /\ lastOp' = "open2"
    /\ lastArgs' = NoArgs
    /\ lastResult' = OkUnit
    /\ appends' = appends
    /\ FirstUntouched

\* Db::put by the second Db, all I/O succeeding
SecondPut(key, value) ==
    /\ second.isOpen
    /\ appends < MaxAppends
    /\ \E appended \in {WalAppend(file, second.offset, synced,
                                  Record("Put", key, value), FALSE, IoOk)} :
           /\ file' = appended.file
           /\ second' = [second EXCEPT
                            !.offset = appended.offset,
                            !.index = PutIndex(@, appended, Record("Put", key, value))]
    /\ lastOp' = "put2"
    /\ lastArgs' = Args(key, value)
    /\ lastResult' = OkUnit
    /\ appends' = appends + 1
    /\ FirstUntouched

\* Db::get by the second Db
SecondGet(key) ==
    /\ second.isOpen
    /\ lastOp' = "get2"
    /\ lastArgs' = Args(key, <<>>)
    /\ lastResult' = DbGet(second.index, file, key)
    /\ UNCHANGED << file, second, appends >>
    /\ FirstUntouched

NextTwo ==
    \/ Open(TRUE)
    \/ \E key \in SmallKeys, value \in SmallValues : Put(key, value, IoOk)
    \/ \E key \in SmallKeys : Get(key)
    \/ Close
    \/ SecondOpen
    \/ \E key \in SmallKeys, value \in SmallValues : SecondPut(key, value)
    \/ \E key \in SmallKeys : SecondGet(key)

SpecTwo == InitLimits /\ [][NextTwo]_vars

\* the second open is never refused, and a put that returns Ok records the
\* value at the cached offset of its own Db while the frame lands at the
\* end of the file
UnprotectedStep ==
    /\ (lastOp' = "open2") => (second'.isOpen /\ lastResult' = OkUnit)
    /\ (isOpen /\ lastOp' = "put") =>
           /\ lastResult' = OkUnit
           /\ index'[lastArgs'.key] =
                  ValuePos(offset + 18 + Len(lastArgs'.key), lastArgs'.val_len)
           /\ Len(file') = Len(file) + 22 + Len(lastArgs'.key) + lastArgs'.val_len
           /\ offset' = offset + 22 + Len(lastArgs'.key) + lastArgs'.val_len
           /\ Decode(file', Len(file)).tag = "Some"
           /\ Decode(file', Len(file)).rec.key = lastArgs'.key
    /\ (second.isOpen /\ lastOp' = "put2") =>
           /\ second'.index[lastArgs'.key] =
                  ValuePos(second.offset + 18 + Len(lastArgs'.key), lastArgs'.val_len)
           /\ Len(file') = Len(file) + 22 + Len(lastArgs'.key) + lastArgs'.val_len

\* C20: two Db instances opened on the same directory are not protected:
\* nothing prevents the second open, and there is an interleaving of
\* successful puts after which one instance's get returns bytes that are
\* not the value it last put, because its cached offset no longer matches
\* where its frame landed
TwoWritersUnprotected == [][UnprotectedStep]_vars

\* the first Db put a value with Ok, no call failed, and its get returns
\* other bytes
TwoWritersWitness ==
    /\ isOpen /\ second.isOpen
    /\ lastOp = "get"
    /\ incidents = 0 /\ ~sessionFailed
    /\ lastArgs.key \in DOMAIN acked
    /\ acked[lastArgs.key].tag = "Some"
    /\ lastResult.tag = "Some"
    /\ lastResult # acked[lastArgs.key]
    /\ offset # Len(file)

(***************************************************************************)
(* The log during a session                                                *)
(***************************************************************************)
\* f is the beginning of g
IsPrefix(f, g) == Len(f) <= Len(g) /\ SubSeq(g, 1, Len(f)) = f

AppendOnlyStep ==
    /\ (isOpen /\ lastOp' \in {"put", "delete", "get", "stats"}) =>
           /\ IsPrefix(file, file')
           /\ lastOp' \in {"get", "stats"} => file' = file
           /\ lastResult'.tag = "Ok" =>
                  \E grown \in {IF lastOp' \in {"put", "delete"}
                                THEN 22 + Len(lastArgs'.key) + lastArgs'.val_len
                                ELSE 0} :
                      /\ Len(file') = Len(file) + grown
                      /\ WalSize(offset') = WalSize(offset) + grown
    /\ Len(file') < Len(file) => lastOp' = "open"

\* C21: during a session the WAL is append-only: no put, delete, get or
\* stats call shrinks wal.log or changes a byte already in it; a successful
\* put(k, v) grows the file and wal_size by exactly 22 + |k| + |v|, a
\* successful delete(k) by exactly 22 + |k|; only open (truncation of a
\* damaged suffix) ever reduces the file length
AppendOnly == [][AppendOnlyStep]_vars

\* a delete that succeeded behind the bytes a failed append left
AppendOnlyWitness ==
    /\ lastOp = "delete"
    /\ lastResult = OkUnit
    /\ sessionFailed
    /\ Len(file) = 9 + 22 + Len(lastArgs.key)

\* C22: in every state between operations (after open, after successful
\* appends and after appends that failed part-way) the WAL's cached offset
\* equals the current length of wal.log, so the offset a successful append
\* returns is the position at which that frame starts in the file
OffsetIsFileLength == isOpen => offset = Len(file)

\* the same while no append of the session has failed
OffsetIsFileLengthUntilFailure == (isOpen /\ ~sessionFailed) => offset = Len(file)

OffsetBehindFile ==
    /\ isOpen
    /\ lastOp = "put"
    /\ lastResult = OkUnit
    /\ offset < Len(file)
    /\ ~LocatesValue(index, file, lastArgs.key)

(***************************************************************************)
(* Record::decode on damaged input                                         *)
(***************************************************************************)
\* C23: decode distinguishes a clean end of input from a torn frame: on an
\* empty input it returns "no more records", and on any non-empty proper
\* prefix of a valid frame (1 to 3 bytes of magic, a cut rec_len field, or a
\* body shorter than rec_len - 8) it fails with the UnexpectedEof variant
TornIsUnexpectedEof ==
    (codec.how = "cut" /\ codec.results # <<>>) =>
        codec.results[1] = IF codec.bytes = <<>> THEN DecNone
                           ELSE DecErr("UnexpectedEof")

\* what the code does on the same inputs
TornAsDecoded ==
    (codec.how = "cut" /\ codec.results # <<>>) =>
        codec.results[1] = IF Len(codec.bytes) < 4 THEN DecNone ELSE DecErr("Io")

TornWitness ==
    /\ codec.how = "cut"
    /\ Len(codec.bytes) \in 1..3
    /\ codec.results = <<DecNone>>

\* every frame decode accepted so far is as long as encode makes the frame
\* of the record it returned
AcceptedAreCanonical ==
    \A i \in 1..Len(codec.results) :
        codec.results[i].tag = "Some" =>
            codec.results[i].next - (IF i = 1 THEN 0 ELSE codec.results[i - 1].next)
                = 22 + Len(codec.results[i].rec.key) + Len(codec.results[i].rec.value)

\* C24: decode accepts a frame only if rec_len = 18 + key_len + val_len + 4;
\* a frame with a valid CRC whose rec_len is larger than its inner lengths
\* require is rejected with UnexpectedEof, so the length rebuild_index
\* derives by re-encoding a replayed record equals the length of the frame
RecLenStrict ==
    /\ (codec.how = "padded" /\ codec.results # <<>>) =>
           codec.results[1] = DecErr("UnexpectedEof")
    /\ AcceptedAreCanonical

PaddedAccepted ==
    /\ codec.how = "padded"
    /\ Len(codec.results) >= 1
    /\ codec.results[1] = DecSome(codec.source[1], Len(codec.bytes))
    /\ Len(codec.bytes) > 22 + Len(codec.source[1].key) + Len(codec.source[1].value)

\* the rec_len field of the frame at the start of the input is below 22 or
\* above 2,097,152
RecLenOutOfBounds(bytes) ==
    \/ bytes[8] > 0
    \/ bytes[5] + 256 * bytes[6] + 65536 * bytes[7] < 22
    \/ bytes[5] + 256 * bytes[6] + 65536 * bytes[7] > 2097152

\* C25: decode rejects a frame whose rec_len field is below 22 or above
\* 2,097,152 with UnexpectedEof before reading or allocating the body (also
\* when no body follows), so rec_len - 8 and the CRC position rec_len - 12
\* are never computed from a value that would underflow; a rec_len within
\* the bounds is not refused by this check
RecLenBounds ==
    (codec.how = "rec_len" /\ codec.results # <<>>) =>
        IF RecLenOutOfBounds(codec.bytes)
        THEN codec.results[1] = DecErr("UnexpectedEof")
        ELSE codec.results[1] \in {DecErr("Io"), DecErr("CrcMismatch")}

RecLenBoundsWitness ==
    /\ codec.how = "rec_len"
    /\ Len(codec.bytes) = 8
    /\ codec.bytes[5] = 21
    /\ codec.results = <<DecErr("UnexpectedEof")>>

(***************************************************************************)
(* The sizes of legal records                                              *)
(***************************************************************************)
\* the number the four bytes from `at` on (counted from 1) hold, little
\* endian, for a field below 2^24
FieldAt(bytes, at) == bytes[at] + 256 * bytes[at + 1] + 65536 * bytes[at + 2]

\* C26: for every record with |key| <= 1024 and |value| <= 1,048,576 the
\* frame length 18 + |key| + |value| + 4 lies in [22, 2,097,152] and fits
\* in a u32 without truncation, so the rec_len, key_len and val_len fields
\* that encode writes equal the true lengths, and no frame of a legal
\* record is rejected by the bounds check of decode
LegalSizesFit ==
    codec.how = "header" =>
        LET lens == codec.source[1]
            frame == 18 + lens.key_len + lens.val_len + 4
        IN  /\ frame >= 22 /\ frame <= 2097152
            /\ Len(codec.bytes) = 18
            /\ codec.bytes[8] = 0 /\ codec.bytes[14] = 0 /\ codec.bytes[18] = 0
            /\ FieldAt(codec.bytes, 5) = frame
            /\ FieldAt(codec.bytes, 11) = lens.key_len
            /\ FieldAt(codec.bytes, 15) = lens.val_len
            /\ codec.results # <<>> => codec.results[1] = DecErr("Io")

\* the largest legal record: its header passed the bounds check and decode
\* went on to read the body, which this input does not hold
LegalSizesWitness ==
    /\ codec.how = "header"
    /\ codec.source[1].key_len = 1024
    /\ codec.source[1].val_len = 1048576
    /\ FieldAt(codec.bytes, 5) = 1049622
    /\ codec.results = <<DecErr("Io")>>

(***************************************************************************)
(* Record::encode and the size limits                                      *)
(***************************************************************************)
\* encode was called on the source record and gave a buffer
Encoded == codec.how \in {"encoded", "whole"} /\ Len(codec.source) = 1

\* C27: encode enforces the size limits: for a record whose key exceeds
\* 1024 bytes or whose value exceeds 1,048,576 bytes it fails with
\* KeyTooLarge / ValueTooLarge, it has no other failure outcome, and for
\* every record within the limits it returns a buffer of exactly
\* rec_len = 18 + |key| + |value| + 4 bytes
EncodeEnforcesLimits ==
    /\ Encoded =>
           /\ Len(codec.source[1].key) <= 1024
           /\ Len(codec.source[1].value) <= 1048576
           /\ Len(codec.bytes) = 18 + Len(codec.source[1].key)
                                    + Len(codec.source[1].value) + 4
    /\ (codec.how = "unencoded" /\ codec.results # <<>>) =>
           /\ codec.results[1].err \in {"KeyTooLarge", "ValueTooLarge"}
           /\ Len(codec.source[1].key) > 1024 \/ Len(codec.source[1].value) > 1048576

\* the parts of C27 the code keeps: encode never fails, and its buffer is
\* 18 + |key| + |value| + 4 bytes long
EncodeLength ==
    /\ Encoded => Len(codec.bytes) = 18 + Len(codec.source[1].key)
                                        + Len(codec.source[1].value) + 4
    /\ codec.how = "unencoded" => codec.results = <<>>

\* encode gave a frame for a key of 1025 bytes, and decode refuses that frame
OversizeEncoded ==
    /\ codec.how = "encoded"
    /\ Len(codec.source[1].key) = 1025
    /\ Len(codec.bytes) = 22 + 1025 + Len(codec.source[1].value)
    /\ codec.results = <<DecErr("KeyTooLarge")>>

(***************************************************************************)
(* decode: the CRC is compared before the version and kind bytes are read  *)
(***************************************************************************)
\* the CRC stored in the frame that starts at pos is the CRC of its bytes
CrcMatchesAt(bytes, pos) ==
    LET rec_len == from_le_bytes(Slice(bytes, pos + 4, 4))
    IN  Slice(bytes, pos + rec_len - 4, 4) = Crc32(Slice(bytes, pos + 4, rec_len - 8))

\* C28: decode checks the CRC before the version and kind bytes: a frame
\* with version != 1 or kind outside {1,2} and a correct CRC fails with
\* UnsupportedVersion / InvalidRecordKind, the same frame with an incorrect
\* CRC fails with CrcMismatch, and the version and kind errors are only ever
\* reported for frames whose CRC matches
CrcBeforeVersionAndKind ==
    /\ (codec.how = "foreign" /\ codec.results # <<>>) =>
           LET s == codec.source[1]
               r == codec.results[1]
           IN  IF s.crc # 0 THEN r = DecErr("CrcMismatch")
               ELSE IF s.version # 1 THEN r = DecErr("UnsupportedVersion")
               ELSE IF s.kind_byte \notin {1, 2} THEN r = DecErr("InvalidRecordKind")
               ELSE r.tag = "Some"
    /\ (/\ codec.results # <<>>
        /\ codec.results[Len(codec.results)].tag = "Err"
        /\ codec.results[Len(codec.results)].err \in {"UnsupportedVersion",
                                                      "InvalidRecordKind"})
           => CrcMatchesAt(codec.bytes, codec.pos)

\* a frame with a foreign version or kind byte and a wrong stored CRC was
\* decoded, and the answer was CrcMismatch
CrcBeforeVersionWitness ==
    /\ codec.how = "foreign"
    /\ codec.source[1].crc # 0
    /\ codec.source[1].version # 1 \/ codec.source[1].kind_byte \notin {1, 2}
    /\ codec.results = <<DecErr("CrcMismatch")>>

\* the same frames with the right CRC, refused for their version or kind
ForeignRefusedWitness ==
    /\ codec.how = "foreign"
    /\ codec.source[1].crc = 0
    /\ codec.results # <<>>
    /\ codec.results[1].tag = "Err"
    /\ codec.results[1].err \in {"UnsupportedVersion", "InvalidRecordKind"}

(***************************************************************************)
(* The log a clean session leaves behind                                   *)
(***************************************************************************)
\* f from pos to its end is a concatenation of frames decode accepts
RECURSIVE WholeFramesFrom(_, _)
WholeFramesFrom(f, pos) ==
    IF pos = Len(f) THEN TRUE
    ELSE LET d == Decode(f, pos)
         IN  d.tag = "Some" /\ WholeFramesFrom(f, d.next)

\* the last session was opened, saw no failed call and was closed, and
\* nothing has happened since but (perhaps) the next open
AfterCleanSession == atClose.closed /\ ~atClose.failed /\ lastOp \in {"close", "open"}

\* C29: after a successful open followed by successful put/delete calls and
\* a clean close, wal.log is a concatenation of whole valid frames, so the
\* next open reports corrupted_records = 0 and truncated_bytes = 0 and
\* recovers every record, also when the first open had to repair a damaged
\* tail
CleanSessionLeavesWholeFrames ==
    /\ (AfterCleanSession /\ lastOp = "close") => WholeFramesFrom(file, 0)
    /\ (AfterCleanSession /\ lastOp = "open") =>
           /\ replayStats.corrupted_records = 0
           /\ replayStats.truncated_bytes = 0
           /\ replayStats.valid_records = replayStats.total_records
           /\ VisibleMap(index, file) = atClose.map

\* the first part of C29 alone: the log at a clean close
WholeFramesAtCleanClose ==
    (AfterCleanSession /\ lastOp = "close") => WholeFramesFrom(file, 0)

\* the second part of C29 alone: what the next open reports
NextOpenFindsNoDamage ==
    (AfterCleanSession /\ lastOp = "open") =>
        /\ replayStats.corrupted_records = 0
        /\ replayStats.truncated_bytes = 0

\* a log that ended in a piece of a magic: the clean session's put was
\* acknowledged behind it, and the next open cut that put away
CleanSessionLost ==
    /\ AfterCleanSession /\ lastOp = "open"
    /\ replayStats = ReplayStats(2, 1, 1, 23)
    /\ file = FirstFrame
    /\ atClose.map[<<>>] = GetSome(<<>>)
    /\ VisibleMap(index, file)[<<>>] = GetNone

(***************************************************************************)
(* Db::get reads and changes nothing                                       *)
(***************************************************************************)
\* Two Db values on a directory whose log may end in a damaged tail: the
\* open of the second one cuts the log under the index of the first
SpecShared == Init /\ [][NextTwo]_vars

\* a step that is a call of get
GetStep == lastOp' = "get"

\* C30: get changes nothing observable: the index, the bytes and length of
\* wal.log and the cached WAL offset are the same after it, whether it
\* returns a value, absent or an error, and for a key that is not in the
\* index it returns absent without reading the WAL
GetFrameStep ==
    GetStep =>
        /\ index' = index
        /\ file' = file
        /\ synced' = synced
        /\ offset' = offset
        /\ isOpen' = isOpen /\ sync_on_write' = sync_on_write
        /\ lastArgs'.key \notin DOMAIN index => lastResult' = GetNone

GetChangesNothing == [][GetFrameStep]_vars

\* get returned an error on a key of the index
GetFailedWitness ==
    /\ lastOp = "get"
    /\ lastResult.tag = "Err"
    /\ lastArgs.key \in DOMAIN index

\* get of a key that is not in the index, while another key is, returned absent
GetAbsentWitness ==
    /\ lastOp = "get"
    /\ lastResult = GetNone
    /\ lastArgs.key \notin DOMAIN index
    /\ DOMAIN index # {}

(***************************************************************************)
(* Opening twice with no write in between                                  *)
(***************************************************************************)
\* Db::open on a directory whose last session was opened and closed and
\* wrote nothing
ReopenStep == lastOp = "close" /\ atClose.opened.fresh /\ lastOp' = "open"

\* C31: open is idempotent on the file: opening, performing no writes,
\* closing and opening again returns the same records and the same index as
\* the first open, leaves wal.log byte for byte as the first open left it,
\* and the second open reports corrupted_records = 0 and truncated_bytes = 0
ReopenStepSame ==
    ReopenStep =>
        /\ recovered' = atClose.opened.records
        /\ index' = atClose.index
        /\ file' = atClose.opened.file
        /\ file' = file
        /\ replayStats'.corrupted_records = 0
        /\ replayStats'.truncated_bytes = 0

OpenIdempotent == [][ReopenStepSame]_vars

\* the second open of a log whose damaged tail the first open cut away
ReopenedAfterRepair ==
    /\ lastOp = "open"
    /\ atClose.closed
    /\ atClose.opened.repaired
    /\ recovered = <<Record("Put", <<7>>, <<9>>)>>
    /\ file = FirstFrame
    /\ replayStats = ReplayStats(1, 1, 0, 0)

(***************************************************************************)
(* Replay on a file whose reads may fail                                   *)
(***************************************************************************)
\* Record::decode on a reader whose read fails with an error that is not
\* end of file: read_exact of the magic, of rec_len or of the body returns
\* that error, and decode returns it as Error::Io
DecodeOnFailingRead == DecErr("Io")

\* The loop of Wal::replay on a file of which good_reads calls of decode
\* read without a failure and the next one hits a read failure
RECURSIVE ReplayLoopIo(_, _, _, _)
ReplayLoopIo(f, last_valid_offset, records, good_reads) ==
    LET d == IF good_reads = 0 THEN DecodeOnFailingRead ELSE Decode(f, last_valid_offset)
    IN  CASE d.tag = "Some" ->
               ReplayLoopIo(f, d.next, Append(records, d.rec), good_reads - 1)
          [] d.tag = "None" ->
               [records |-> records,
                stats |-> ReplayStats(Len(records), Len(records), 0, 0),
                file |-> f]
          [] d.tag = "Err" ->
               LET truncated_bytes == Len(f) - last_valid_offset
               IN  [records |-> records,
                    stats |-> ReplayStats(Len(records) + 1, Len(records), 1, truncated_bytes),
                    file |-> IF truncated_bytes > 0
                             THEN SubSeq(f, 1, last_valid_offset) ELSE f]

\* Db::open(path, Options { sync_on_write: sync }) while the device fails
\* one read of the replay, after good_reads calls of decode
OpenReadFailure(sync, good_reads) ==
    /\ ~isOpen
    /\ incidents < MaxIncidents
    /\ good_reads <= Len(Replay(file).records)
    /\ \E r \in {ReplayLoopIo(file, 0, <<>>, good_reads)} :
           /\ file' = r.file
           /\ synced' = IF synced < Len(r.file) THEN synced ELSE Len(r.file)
           /\ offset' = Len(r.file)
           /\ index' = RebuildIndex(r.records)
           /\ recovered' = r.records
           /\ replayStats' = r.stats
    /\ isOpen' = TRUE
    /\ sync_on_write' = sync
    /\ lastOp' = "open"
    /\ lastArgs' = NoArgs
    /\ lastResult' = OkUnit
    /\ sessionFailed' = FALSE
    /\ incidents' = incidents + 1
    /\ appends' = appends
    /\ atClose' = [atClose EXCEPT !.opened = NotFresh]
    /\ UNCHANGED << acked, dirty, unsure, inflight, standalone >>

NextReadFailure ==
    \/ Open(TRUE)
    \/ \E key \in SmallKeys, value \in SmallValues : Put(key, value, IoOk)
    \/ \E key \in SmallKeys : Delete(key, IoOk)
    \/ \E key \in SmallKeys : Get(key)
    \/ Close
    \/ \E good_reads \in 0..MaxAppends : OpenReadFailure(TRUE, good_reads)

SpecReadFailure == Init /\ [][NextReadFailure]_vars

\* an open cut the file at a place where decode, reading the bytes, finds
\* no error
CutWithoutDamage ==
    /\ lastOp' = "open"
    /\ file' # file
    /\ Decode(file, Len(file')).tag # "Err"

\* C32: replay truncates only because of the content of the file: a read
\* failure during replay that is not end of file is not treated as
\* corruption, so it never causes valid frames that follow the last valid
\* end to be cut from wal.log
TruncatesOnlyOnContent == [][~CutWithoutDamage]_vars

\* a log of two whole frames, both acknowledged, of which an open that hit
\* one read failure cut the second
ValidFrameCut ==
    /\ lastOp = "open"
    /\ lastResult = OkUnit
    /\ file = FirstFrame
    /\ replayStats = ReplayStats(2, 1, 1, 23)
    /\ <<>> \in DOMAIN acked
    /\ acked[<<>>] = GetSome(<<9>>)
    /\ DbGet(index, file, <<>>) = GetNone
    /\ atClose.closed /\ ~atClose.failed
    /\ atClose.map[<<>>] = GetSome(<<9>>)

(***************************************************************************)
(* The counters of ReplayStats                                             *)
(***************************************************************************)
\* the counters agree with each other and with the records returned
CountersAgree(stats, records) ==
    /\ stats.total_records = stats.valid_records + stats.corrupted_records
    /\ stats.corrupted_records \in {0, 1}
    /\ stats.valid_records = Len(records)

\* C33: every ReplayStats returned by replay satisfies total_records =
\* valid_records + corrupted_records, corrupted_records is 0 or 1,
\* valid_records equals the number of records returned, and
\* truncated_bytes > 0 exactly when corrupted_records = 1
ReplayStatsConsistent ==
    lastOp = "open" =>
        /\ CountersAgree(replayStats, recovered)
        /\ replayStats.truncated_bytes > 0 <=> replayStats.corrupted_records = 1

\* the part of C33 that holds also when a read fails
ReplayCountersAgree == lastOp = "open" => CountersAgree(replayStats, recovered)

\* replay of a log of one whole frame counted a corrupted record and cut
\* nothing: the read after the frame failed
CorruptedNothingCut ==
    /\ lastOp = "open"
    /\ file = FirstFrame
    /\ recovered = <<Record("Put", <<7>>, <<9>>)>>
    /\ replayStats = ReplayStats(2, 1, 1, 0)

(***************************************************************************)
(* Wal::replay one iteration of its loop at a time                         *)
(***************************************************************************)
\* the logs replay is run on: up to MaxFrames frames of small records,
\* followed by nothing or by a damaged tail
ReplayLogs ==
    {EncodeAll(source) \o tail :
        source \in UNION {[1..n -> SmallRecords] : n \in 0..MaxFrames},
        tail \in {<<>>} \cup DamagedTails}

\* replay before its loop: stats and records empty, file_len read, the
\* reader (codec) at the start of the file, last_valid_offset (codec.pos) 0
InitReplay ==
    /\ file \in ReplayLogs
    /\ codec = CursorOn("replay", <<>>, file)
    /\ synced = Len(file)
    /\ isOpen = FALSE /\ offset = 0 /\ index = EmptyIndex /\ sync_on_write = TRUE
    /\ recovered = <<>>
    /\ replayStats = ReplayStats(0, 0, 0, 0)
    /\ lastOp = "replay"
    /\ lastArgs = NoArgs
    /\ lastResult = OkUnit
    /\ appends = 0 /\ incidents = 0
    /\ sessionFailed = FALSE
    /\ acked = EmptyMap /\ dirty = {} /\ unsure = {}
    /\ atClose = NotClosed
    /\ inflight = NoInflight
    /\ second = NoSecond /\ twin = NoTwin

\* reader.stream_position() after decode returned a record, read wrongly:
\* the position before the frame
StreamPositionBefore(d, pos) == pos

\* reader.stream_position() after decode returned a record
StreamPosition(d, pos) == d.next

\* one pass through the body of the loop of Wal::replay
ReplayIteration ==
    /\ lastOp = "replay"
    /\ \E d \in {Decode(codec.bytes, codec.pos)} :
         /\ codec' = [codec EXCEPT !.results = Append(@, d),
                                   !.pos = IF d.tag = "Some" THEN StreamPosition(d, @)
                                           ELSE @]
         /\ CASE d.tag = "Some" ->
                   /\ replayStats' = [replayStats EXCEPT !.total_records = @ + 1,
                                                         !.valid_records = @ + 1]
                   /\ recovered' = Append(recovered, d.rec)
                   /\ UNCHANGED << file, synced, lastOp >>
              [] d.tag = "None" ->
                   /\ lastOp' = "replayed"
                   /\ UNCHANGED << file, synced, replayStats, recovered >>
              [] d.tag = "Err" ->
                   /\ replayStats' = [replayStats EXCEPT
                                         !.total_records = @ + 1,
                                         !.corrupted_records = @ + 1,
                                         !.truncated_bytes = Len(codec.bytes) - codec.pos]
                   /\ file' = IF Len(codec.bytes) - codec.pos > 0
                              THEN SubSeq(file, 1, codec.pos) ELSE file
                   /\ synced' = IF synced < codec.pos THEN synced ELSE codec.pos
                   /\ lastOp' = "replayed"
                   /\ UNCHANGED recovered
    /\ UNCHANGED << dbVars, lastArgs, lastResult, countVars, sessionFailed, acked,
                    dirty, unsure, atClose, inflight, second, twin >>

NextReplay == ReplayIteration

SpecReplay == InitReplay /\ [][NextReplay]_vars

\* the loop has not been left: exactly then ReplayIteration is enabled, and
\* it changes the reader
ReplayRunning == lastOp = "replay"

\* The thread that called replay is left to run, an iteration that can be
\* made is made: WF_vars(ReplayIteration), with ENABLED <<ReplayIteration>>_vars
\* written as the state predicate ReplayRunning
LoopRuns == <>[]~ReplayRunning \/ []<><<ReplayIteration>>_vars

SpecReplayFair == SpecReplay /\ LoopRuns

\* the number of passes through the loop so far
Iterations == Len(codec.results)

\* a pass either leaves the loop or moves the reader over one whole frame
\* of at least 22 bytes
IterationStep ==
    \/ lastOp' = "replayed"
    \/ /\ codec'.pos >= codec.pos + 22
       /\ codec'.pos <= Len(codec.bytes)
       /\ SubSeq(codec.bytes, codec.pos + 1, codec.pos + 4) = MAGIC

ReplayDone == lastOp = "replayed"

\* C34: replay terminates on every finite file: each loop iteration either
\* exits (end of input or first decode error) or consumes one whole frame
\* of at least 22 bytes, so the number of iterations is at most
\* file_len / 22 + 1
ReplayTerminates ==
    /\ <>ReplayDone
    /\ [](Iterations <= Len(codec.bytes) \div 22 + 1)
    /\ [][IterationStep]_vars

\* replay of a log of MaxFrames frames of 22 bytes is over after
\* file_len / 22 + 1 iterations
ReplayTerminatesWitness ==
    /\ ReplayDone
    /\ Len(codec.bytes) = 22 * MaxFrames
    /\ Iterations = Len(codec.bytes) \div 22 + 1
    /\ Len(recovered) = MaxFrames

\* the loop taken step by step gives what ReplayLoop gives
StepwiseIsReplayLoop ==
    ReplayDone =>
        LET r == Replay(codec.bytes)
        IN  r.records = recovered /\ r.stats = replayStats /\ r.file = file
====
